---- MODULE Spec2Model ----
(***************************************************************************)
(* Invoice reconciliation workflow of enterprise-invoice-agent:            *)
(* tools.py (mock ERP / PO / payment tools), worker.py (retry wrapper and  *)
(* reconciliation step), graph.py (reconcile -> check_approval ->          *)
(* execute_payment with a human-in-the-loop interrupt) and app.py (the     *)
(* /run, /resume and /state handlers over a checkpointed graph).           *)
(*                                                                         *)
(* Encoding.  Python's None and an absent state key are both NONE, the     *)
(* empty tuple; a present value v is Some(v), the one-element tuple.       *)
(* Money is counted in cents, so Decimal("10000.00") is 1000000 and the    *)
(* tolerance Decimal("0.01") is 1.                                         *)
(***************************************************************************)
EXTENDS Integers, Sequences, FiniteSets, TLC

NONE == <<>>
Some(v) == <<v>>
IsNone(o) == o = NONE
Val(o) == o[1]

\* ------------------------------------------------------------------------
\* config.py: the defaults of HITL_APPROVAL_THRESHOLD_USD (5000, in cents)
\* and MAX_TOOL_RETRIES
\* ------------------------------------------------------------------------
DefaultThreshold == 500000
DefaultMaxRetries == 3

\* ------------------------------------------------------------------------
\* Bounds of the model
\* ------------------------------------------------------------------------
\* Number of API calls (POST /run, POST /resume, GET /state) in a behaviour.
MaxOps == 3

\* Number of POST /run and POST /resume calls the server runs at once.
MaxWorkers == 2

\* Number of matches that time out in the runs of a behaviour: the mock ERP
\* lets any match time out (tools.py, random.random() < 0.15).
MaxMatchTimeouts == 1

\* Thread identifiers the checkpointer has a slot for, and the ones the
\* callers of this specification use.
AllThreads == {"t1", "t2"}
Threads == {"t1"}

\* Vendor filters a caller sends: none, the two vendors of the mock ERP and
\* one vendor the ERP does not know.
VendorInputs == {NONE, Some("V001"), Some("V002"), Some("V999")}

\* Values of HITL_APPROVAL_THRESHOLD_USD the service is started with, in
\* cents: the mock invoice amount 2500 itself, one currency unit above it,
\* and the default.
ThresholdChoices == {250000, 250100, DefaultThreshold}

\* Values of MAX_TOOL_RETRIES the service is started with: none and the
\* default.
MaxRetriesChoices == {0, DefaultMaxRetries}

\* The random part of a payment reference, random.randint(1000, 9999).
RefChoices == {1000, 9999}

\* ------------------------------------------------------------------------
\* tools.py: mock data
\* ------------------------------------------------------------------------
ErpTimeout == "ERP API timeout"

MockInvoiceItems ==
  << [invoice_id |-> "INV-001", vendor_id |-> "V001", vendor_name |-> "Acme Corp",
      amount |-> 1000000, currency |-> "USD", due_date |-> NONE,
      line_items |-> <<>>, status |-> "pending"],
     [invoice_id |-> "INV-002", vendor_id |-> "V001", vendor_name |-> "Acme Corp",
      amount |-> 50000, currency |-> "USD", due_date |-> NONE,
      line_items |-> <<>>, status |-> "pending"],
     [invoice_id |-> "INV-003", vendor_id |-> "V002", vendor_name |-> "Beta Inc",
      amount |-> 250000, currency |-> "USD", due_date |-> NONE,
      line_items |-> <<>>, status |-> "pending"] >>

Take(s, n) == SubSeq(s, 1, IF Len(s) < n THEN Len(s) ELSE n)

\* _mock_invoices after the simulated timeout did not fire: filter by vendor
\* when the filter is truthy, then cut to limit.
mock_invoices(vendor_id, limit) ==
  LET hasFilter == ~IsNone(vendor_id) /\ Val(vendor_id) # ""
      keep(i) == ~hasFilter \/ i.vendor_id = Val(vendor_id)
  IN  Take(SelectSeq(MockInvoiceItems, keep), limit)

mock_pos ==
  << [po_id |-> "PO-101", vendor_id |-> "V001", total_amount |-> 1000000,
      status |-> "open", line_items |-> <<>>],
     [po_id |-> "PO-102", vendor_id |-> "V001", total_amount |-> 50000,
      status |-> "open", line_items |-> <<>>],
     [po_id |-> "PO-201", vendor_id |-> "V002", total_amount |-> 250000,
      status |-> "open", line_items |-> <<>>] >>

\* ------------------------------------------------------------------------
\* tools.py: tools
\* ------------------------------------------------------------------------
\* An operation that can raise is modelled by its outcome: Ok(v) or Raised(e).
Ok(v) == [ok |-> TRUE, value |-> v]
Raised(e) == [ok |-> FALSE, error |-> e]

\* fetch_pending_invoices: timeout says whether random.random() < 0.15 fired.
fetch_pending_invoices(vendor_id, limit, timeout) ==
  IF timeout THEN Raised(ErpTimeout) ELSE Ok(mock_invoices(vendor_id, limit))

Abs(n) == IF n < 0 THEN -n ELSE n

\* Match scores 0.0, 0.5 and 1.0 in tenths.
ScoreNone == 0
ScoreHalf == 5
ScoreFull == 10

AmountTolerance == 1

\* next(iter(hits), None)
FirstOrNone(hits) == IF hits = <<>> THEN NONE ELSE Some(hits[1])

\* match_invoice_to_po that is content with the vendor or the amount.
match_invoice_to_po_either(invoice_id, po_id, timeout) ==
  IF timeout THEN Raised(ErpTimeout)
  ELSE
    LET isInv(i) == i.invoice_id = invoice_id
        isPo(p) == p.po_id = po_id
        inv == FirstOrNone(SelectSeq(mock_invoices(NONE, 100), isInv))
        po == FirstOrNone(SelectSeq(mock_pos, isPo))
    IN  IF IsNone(inv) \/ IsNone(po)
        THEN Ok([invoice_id |-> invoice_id, po_id |-> po_id, match_score |-> ScoreNone,
                 amount_match |-> FALSE, message |-> "Invoice or PO not found"])
        ELSE
          LET amount_match == Abs(Val(inv).amount - Val(po).total_amount) < AmountTolerance
              score == IF Val(inv).vendor_id = Val(po).vendor_id \/ amount_match
                       THEN ScoreFull ELSE ScoreHalf
          IN  Ok([invoice_id |-> invoice_id, po_id |-> po_id, match_score |-> score,
                  amount_match |-> amount_match,
                  message |-> IF score >= ScoreHalf THEN "Match found" ELSE "No match"])

\* match_invoice_to_po: it reads the ERP again (limit=100), so it can raise
\* the simulated timeout as well.
match_invoice_to_po(invoice_id, po_id, timeout) ==
  IF timeout THEN Raised(ErpTimeout)
  ELSE
    LET isInv(i) == i.invoice_id = invoice_id
        isPo(p) == p.po_id = po_id
        inv == FirstOrNone(SelectSeq(mock_invoices(NONE, 100), isInv))
        po == FirstOrNone(SelectSeq(mock_pos, isPo))
    IN  IF IsNone(inv) \/ IsNone(po)
        THEN Ok([invoice_id |-> invoice_id, po_id |-> po_id, match_score |-> ScoreNone,
                 amount_match |-> FALSE, message |-> "Invoice or PO not found"])
        ELSE
          LET amount_match == Abs(Val(inv).amount - Val(po).total_amount) < AmountTolerance
              score == IF Val(inv).vendor_id = Val(po).vendor_id /\ amount_match
                       THEN ScoreFull ELSE ScoreHalf
          IN  Ok([invoice_id |-> invoice_id, po_id |-> po_id, match_score |-> score,
                  amount_match |-> amount_match,
                  message |-> IF score >= ScoreHalf THEN "Match found" ELSE "No match"])

\* A Decimal is its digits and the number of them after the point, as
\* Decimal(text) keeps them: Decimal("10000.0") has one place, Decimal("0")
\* has none.  Decimal(str(x)) of a float x, given in cents, has the places
\* str(x) writes.
DecimalOfFloat(c) ==
  IF c % 10 = 0 THEN [digits |-> c \div 10, places |-> 1]
  ELSE [digits |-> c, places |-> 2]

\* Decimal(str(0)) of the int 0.
DecimalOfZero == [digits |-> 0, places |-> 0]

\* str() of a Decimal: the digits, with the point when there are places.
StrDecimal(d) ==
  IF d.places = 0 THEN ToString(d.digits)
  ELSE IF d.places = 1
  THEN ToString(d.digits \div 10) \o "." \o ToString(d.digits % 10)
  ELSE ToString(d.digits \div 100) \o "." \o
       (IF d.digits % 100 < 10 THEN "0" \o ToString(d.digits % 100)
        ELSE ToString(d.digits % 100))

\* execute_payment: the cancelled record when not approved, else the paid
\* record with a reference that ends in a random four-digit number.
execute_payment(invoice_id, amount_usd, vendor_id, approved, ref) ==
  IF ~approved
  THEN [status |-> "cancelled", invoice_id |-> invoice_id, reason |-> "User did not approve"]
  ELSE [status |-> "paid", invoice_id |-> invoice_id, amount_usd |-> StrDecimal(amount_usd),
        vendor_id |-> vendor_id,
        reference |-> "PAY-" \o invoice_id \o "-" \o ToString(ref)]

\* ------------------------------------------------------------------------
\* worker.py
\* ------------------------------------------------------------------------
\* The loop that keeps the first error instead of the last.
RECURSIVE retry_loop_first_error(_, _, _, _, _)
retry_loop_first_error(attempt, last_error, outcomes, fallback_result, max_retries) ==
  LET err == IF IsNone(last_error) THEN Some(outcomes[attempt + 1].error) ELSE last_error
  IN  IF attempt >= max_retries
      THEN [result |-> fallback_result, error |-> last_error, used_fallback |-> TRUE,
            calls |-> attempt]
      ELSE IF outcomes[attempt + 1].ok
      THEN [result |-> outcomes[attempt + 1].value, error |-> NONE, used_fallback |-> FALSE,
            calls |-> attempt + 1]
      ELSE IF attempt = max_retries - 1
      THEN [result |-> fallback_result, error |-> err, used_fallback |-> TRUE,
            calls |-> attempt + 1]
      ELSE retry_loop_first_error(attempt + 1, err, outcomes, fallback_result, max_retries)

\* run_with_retry_and_fallback.  outcomes[k] is what the k-th call of the
\* wrapped operation does; calls counts the calls made.  attempt runs over
\* range(max_retries), from 0.
RECURSIVE retry_loop(_, _, _, _, _)
retry_loop(attempt, last_error, outcomes, fallback_result, max_retries) ==
  IF attempt >= max_retries
  THEN [result |-> fallback_result, error |-> last_error, used_fallback |-> TRUE,
        calls |-> attempt]
  ELSE IF outcomes[attempt + 1].ok
  THEN [result |-> outcomes[attempt + 1].value, error |-> NONE, used_fallback |-> FALSE,
        calls |-> attempt + 1]
  ELSE IF attempt = max_retries - 1
  THEN [result |-> fallback_result, error |-> Some(outcomes[attempt + 1].error),
        used_fallback |-> TRUE, calls |-> attempt + 1]
  ELSE retry_loop(attempt + 1, Some(outcomes[attempt + 1].error), outcomes,
                  fallback_result, max_retries)

\* The wrapper with one attempt less than max_retries.
run_with_retry_one_short(outcomes, fallback_result, max_retries) ==
  retry_loop(0, NONE, outcomes, fallback_result, max_retries - 1)

run_with_retry_and_fallback(outcomes, fallback_result, max_retries) ==
  retry_loop(0, NONE, outcomes, fallback_result, max_retries)

\* The purchase order the step matches an invoice of this vendor against.
po_for_vendor(vid) ==
  IF vid = "V001" THEN "PO-101" ELSE IF vid = "V002" THEN "PO-201" ELSE "PO-101"

\* One pass of the loop body of reconcile_step for invoice inv.
reconcile_item(inv, timeout) ==
  LET m == match_invoice_to_po(inv.invoice_id, po_for_vendor(inv.vendor_id), timeout)
  IN  IF m.ok THEN [invoice |-> inv, match |-> Some(m.value)]
      ELSE [invoice |-> inv, match |-> NONE, error |-> m.error]

\* Number of invoices the reconciliation step processes.
MaxReconciled == 3

\* reconcile_step that returns after a failed fetch without the error.
reconcile_step_drops_error(vendor_id, limit, max_retries, fetch_timeouts, match_timeouts) ==
  LET outcomes == [k \in DOMAIN fetch_timeouts |->
                     fetch_pending_invoices(vendor_id, limit, fetch_timeouts[k])]
      r == run_with_retry_and_fallback(outcomes, <<>>, max_retries)
      head == Take(r.result, MaxReconciled)
  IN  IF ~IsNone(r.error)
      THEN [reconciled |-> <<>>, error |-> NONE, used_fallback |-> r.used_fallback,
            fetch_calls |-> r.calls, match_calls |-> 0]
      ELSE [reconciled |-> [i \in 1..Len(head) |-> reconcile_item(head[i], match_timeouts[i])],
            error |-> NONE, used_fallback |-> r.used_fallback,
            fetch_calls |-> r.calls, match_calls |-> Len(head)]

\* reconcile_step that processes the fetched invoices last first.
reconcile_step_last_first(vendor_id, limit, max_retries, fetch_timeouts, match_timeouts) ==
  LET outcomes == [k \in DOMAIN fetch_timeouts |->
                     fetch_pending_invoices(vendor_id, limit, fetch_timeouts[k])]
      r == run_with_retry_and_fallback(outcomes, <<>>, max_retries)
      all == r.result
      head == Take([i \in 1..Len(all) |-> all[Len(all) + 1 - i]], MaxReconciled)
  IN  IF ~IsNone(r.error)
      THEN [reconciled |-> <<>>, error |-> r.error, used_fallback |-> r.used_fallback,
            fetch_calls |-> r.calls, match_calls |-> 0]
      ELSE [reconciled |-> [i \in 1..Len(head) |-> reconcile_item(head[i], match_timeouts[i])],
            error |-> NONE, used_fallback |-> r.used_fallback,
            fetch_calls |-> r.calls, match_calls |-> Len(head)]

\* reconcile_step that gives up when a match fails.
reconcile_step_aborts_on_match(vendor_id, limit, max_retries, fetch_timeouts, match_timeouts) ==
  LET outcomes == [k \in DOMAIN fetch_timeouts |->
                     fetch_pending_invoices(vendor_id, limit, fetch_timeouts[k])]
      r == run_with_retry_and_fallback(outcomes, <<>>, max_retries)
      head == Take(r.result, MaxReconciled)
  IN  IF ~IsNone(r.error)
      THEN [reconciled |-> <<>>, error |-> r.error, used_fallback |-> r.used_fallback,
            fetch_calls |-> r.calls, match_calls |-> 0]
      ELSE IF \E i \in 1..Len(head) : match_timeouts[i]
      THEN [reconciled |-> <<>>, error |-> Some(ErpTimeout), used_fallback |-> TRUE,
            fetch_calls |-> r.calls, match_calls |-> 1]
      ELSE [reconciled |-> [i \in 1..Len(head) |-> reconcile_item(head[i], match_timeouts[i])],
            error |-> NONE, used_fallback |-> r.used_fallback,
            fetch_calls |-> r.calls, match_calls |-> Len(head)]

\* reconcile_step.  fetch_timeouts[k] says whether the k-th fetch attempt
\* times out, match_timeouts[i] whether the match of the i-th invoice does.
reconcile_step(vendor_id, limit, max_retries, fetch_timeouts, match_timeouts) ==
  LET outcomes == [k \in DOMAIN fetch_timeouts |->
                     fetch_pending_invoices(vendor_id, limit, fetch_timeouts[k])]
      r == run_with_retry_and_fallback(outcomes, <<>>, max_retries)
      head == Take(r.result, MaxReconciled)
  IN  IF ~IsNone(r.error)
      THEN [reconciled |-> <<>>, error |-> r.error, used_fallback |-> r.used_fallback,
            fetch_calls |-> r.calls, match_calls |-> 0]
      ELSE [reconciled |-> [i \in 1..Len(head) |-> reconcile_item(head[i], match_timeouts[i])],
            error |-> NONE, used_fallback |-> r.used_fallback,
            fetch_calls |-> r.calls, match_calls |-> Len(head)]

\* ------------------------------------------------------------------------
\* state.py and graph.py
\* ------------------------------------------------------------------------
\* InvoiceReconciliationState with no key written.
EmptyState ==
  [messages |-> NONE, vendor_id |-> NONE, reconciled |-> NONE, pending_payment |-> NONE,
   approval |-> NONE, hitl_prompt |-> NONE, last_error |-> NONE, retry_count |-> NONE,
   used_fallback |-> NONE, status |-> NONE, result |-> NONE]

\* The checkpointed channels after a node's partial update: messages is
\* reduced with operator.add, every other key keeps the last value written.
ApplyUpdates(state, updates) ==
  [k \in DOMAIN state |->
     IF k \notin DOMAIN updates THEN state[k]
     ELSE IF k = "messages"
          THEN Some((IF IsNone(state[k]) THEN <<>> ELSE Val(state[k])) \o Val(updates[k]))
          ELSE updates[k]]

\* float(amount) of a Decimal with two decimals: exact for the whole-unit
\* amounts of the mock ERP, so the number of cents is kept.
DecimalToFloat(cents) == cents

\* reconcile_node with the failure test on a non-empty list: a failed fetch
\* no longer sets status.
reconcile_node_no_failed(state, step) ==
  [reconciled |-> Some(step.reconciled),
   used_fallback |-> Some(step.used_fallback),
   retry_count |-> Some((IF IsNone(state.retry_count) THEN 0 ELSE Val(state.retry_count))
                        + (IF ~IsNone(step.error) THEN 1 ELSE 0)),
   last_error |-> step.error]
  @@ (IF step.reconciled # <<>>
      THEN [pending_payment |->
              Some([invoice_id |-> step.reconciled[1].invoice.invoice_id,
                    amount |-> DecimalToFloat(step.reconciled[1].invoice.amount),
                    vendor_id |-> step.reconciled[1].invoice.vendor_id])]
      ELSE <<>>)

\* reconcile_node that takes the pending payment from the last item.
reconcile_node_last_item(state, step) ==
  LET retry_count == IF IsNone(state.retry_count) THEN 0 ELSE Val(state.retry_count)
      err == ~IsNone(step.error)
      base == [reconciled |-> Some(step.reconciled),
               used_fallback |-> Some(step.used_fallback),
               retry_count |-> Some(retry_count + (IF err THEN 1 ELSE 0)),
               last_error |-> step.error]
      inv == step.reconciled[Len(step.reconciled)].invoice
  IN  IF err /\ step.used_fallback /\ step.reconciled = <<>>
      THEN base @@ [status |-> Some("failed")]
      ELSE IF step.reconciled # <<>>
      THEN base @@ [pending_payment |->
                      Some([invoice_id |-> inv.invoice_id,
                            amount |-> DecimalToFloat(inv.amount),
                            vendor_id |-> inv.vendor_id])]
      ELSE base

\* reconcile_node that adds the attempts made to retry_count.
reconcile_node_counts_attempts(state, step) ==
  LET retry_count == IF IsNone(state.retry_count) THEN 0 ELSE Val(state.retry_count)
      err == ~IsNone(step.error)
      base == [reconciled |-> Some(step.reconciled),
               used_fallback |-> Some(step.used_fallback),
               retry_count |-> Some(retry_count + (IF err THEN step.fetch_calls ELSE 0)),
               last_error |-> step.error]
      inv == step.reconciled[1].invoice
  IN  IF err /\ step.used_fallback /\ step.reconciled = <<>>
      THEN base @@ [status |-> Some("failed")]
      ELSE IF step.reconciled # <<>>
      THEN base @@ [pending_payment |->
                      Some([invoice_id |-> inv.invoice_id,
                            amount |-> DecimalToFloat(inv.amount),
                            vendor_id |-> inv.vendor_id])]
      ELSE base

\* reconcile_node, given the result of reconcile_step.
reconcile_node(state, step) ==
  LET retry_count == IF IsNone(state.retry_count) THEN 0 ELSE Val(state.retry_count)
      err == ~IsNone(step.error)
      base == [reconciled |-> Some(step.reconciled),
               used_fallback |-> Some(step.used_fallback),
               retry_count |-> Some(retry_count + (IF err THEN 1 ELSE 0)),
               last_error |-> step.error]
      inv == step.reconciled[1].invoice
  IN  IF err /\ step.used_fallback /\ step.reconciled = <<>>
      THEN base @@ [status |-> Some("failed")]
      ELSE IF step.reconciled # <<>>
      THEN base @@ [pending_payment |->
                      Some([invoice_id |-> inv.invoice_id,
                            amount |-> DecimalToFloat(inv.amount),
                            vendor_id |-> inv.vendor_id])]
      ELSE base

Pad3(n) ==
  IF n < 10 THEN "00" \o ToString(n) ELSE IF n < 100 THEN "0" \o ToString(n) ELSE ToString(n)

RECURSIVE Commas(_)
Commas(n) == IF n < 1000 THEN ToString(n) ELSE Commas(n \div 1000) \o "," \o Pad3(n % 1000)

\* format(amount, ",.2f") for an amount given in cents.
FmtMoney(c) ==
  Commas(c \div 100) \o "." \o (IF c % 100 < 10 THEN "0" ELSE "") \o ToString(c % 100)

\* The updates of check_approval_node when no approval is needed.
AutoApprove ==
  [suspend |-> FALSE,
   updates |-> [approval |-> Some(TRUE), status |-> Some("pending"), hitl_prompt |-> NONE]]

\* The prompt with the vendor's contact added for the approver.
ApprovalPrompt_with_contact(state, threshold) ==
  LET pending == state.pending_payment
      amount_usd == IF IsNone(pending) THEN 0 ELSE Val(pending).amount
      invoice_id == IF IsNone(pending) THEN "" ELSE Val(pending).invoice_id
  IN  [question |-> "Ready to pay this $" \o FmtMoney(amount_usd) \o " invoice. Approve?",
       invoice_id |-> invoice_id,
       amount_usd |-> amount_usd,
       approval_threshold_usd |-> threshold,
       vendor_email |-> "ap@vendor.example"]

\* The prompt check_approval_node hands to interrupt().
ApprovalPrompt(state, threshold) ==
  LET pending == state.pending_payment
      amount_usd == IF IsNone(pending) THEN 0 ELSE Val(pending).amount
      invoice_id == IF IsNone(pending) THEN "" ELSE Val(pending).invoice_id
  IN  [question |-> "Ready to pay this $" \o FmtMoney(amount_usd) \o " invoice. Approve?",
       invoice_id |-> invoice_id,
       amount_usd |-> amount_usd,
       approval_threshold_usd |-> threshold]

\* check_approval_node that asks only above the threshold, not at it.
check_approval_node_above(state, threshold, resume) ==
  LET amount_usd == IF IsNone(state.pending_payment) THEN 0
                    ELSE Val(state.pending_payment).amount
      prompt == ApprovalPrompt(state, threshold)
  IN  IF ~(amount_usd > threshold) THEN AutoApprove
      ELSE IF IsNone(resume) THEN [suspend |-> TRUE, prompt |-> prompt]
      ELSE [suspend |-> FALSE,
            updates |-> [approval |-> Some(Val(resume)), hitl_prompt |-> Some(prompt),
                         status |-> Some(IF ~Val(resume) THEN "cancelled" ELSE "pending")]]

\* check_approval_node that handles the suspension as a fault of the node.
check_approval_node_catches(state, threshold, resume) ==
  LET amount_usd == IF IsNone(state.pending_payment) THEN 0
                    ELSE Val(state.pending_payment).amount
      prompt == ApprovalPrompt(state, threshold)
  IN  IF ~(amount_usd >= threshold) THEN AutoApprove
      ELSE IF IsNone(resume)
      THEN [suspend |-> FALSE,
            updates |-> [status |-> Some("failed"), last_error |-> Some("Interrupt")]]
      ELSE [suspend |-> FALSE,
            updates |-> [approval |-> Some(Val(resume)), hitl_prompt |-> Some(prompt),
                         status |-> Some(IF ~Val(resume) THEN "cancelled" ELSE "pending")]]

\* check_approval_node that drops the decision it is resumed with.
check_approval_node_ignores(state, threshold, resume) ==
  LET amount_usd == IF IsNone(state.pending_payment) THEN 0
                    ELSE Val(state.pending_payment).amount
      prompt == ApprovalPrompt(state, threshold)
  IN  IF ~(amount_usd >= threshold) THEN AutoApprove
      ELSE IF IsNone(resume) THEN [suspend |-> TRUE, prompt |-> prompt]
      ELSE [suspend |-> FALSE,
            updates |-> [approval |-> Some(TRUE), hitl_prompt |-> Some(prompt),
                         status |-> Some("pending")]]

\* check_approval_node.  resume is NONE when no decision is pending for the
\* node, and interrupt() then suspends; otherwise interrupt() returns it.
check_approval_node(state, threshold, resume) ==
  LET pending == state.pending_payment
      amount_usd == IF IsNone(pending) THEN 0 ELSE Val(pending).amount
      needs_approval == amount_usd >= threshold
      prompt == ApprovalPrompt(state, threshold)
  IN  IF ~needs_approval
      THEN AutoApprove
      ELSE IF IsNone(resume)
      THEN [suspend |-> TRUE, prompt |-> prompt]
      ELSE [suspend |-> FALSE,
            updates |-> [approval |-> Some(Val(resume)),
                         hitl_prompt |-> Some(prompt),
                         status |-> Some(IF ~Val(resume) THEN "cancelled" ELSE "pending")]]

\* execute_payment_node: the amount goes to the payment tool as
\* Decimal(str(amount)), the amount being the float of the pending payment
\* or, without one, the int 0.
execute_payment_node(state, ref) ==
  LET pending == state.pending_payment
      approved == IF IsNone(state.approval) THEN FALSE ELSE Val(state.approval)
      invoice_id == IF IsNone(pending) THEN "" ELSE Val(pending).invoice_id
      amount_usd == IF IsNone(pending) THEN DecimalOfZero
                    ELSE DecimalOfFloat(Val(pending).amount)
      vendor_id == IF IsNone(pending) THEN "" ELSE Val(pending).vendor_id
      result == execute_payment(invoice_id, amount_usd, vendor_id, approved, ref)
  IN  [result |-> Some(result),
       status |-> Some(IF approved THEN result.status ELSE "cancelled")]

\* route_after_reconcile that looks at the pending payment first.
route_after_reconcile_pending_first(state) ==
  IF ~IsNone(state.pending_payment) THEN "check_approval" ELSE "__end__"

route_after_reconcile(state) ==
  IF state.status = Some("failed") THEN "__end__"
  ELSE IF ~IsNone(state.pending_payment) THEN "check_approval"
  ELSE "__end__"

\* route_after_approval that tests for the wrong status.
route_after_approval_pending(state) ==
  IF state.status = Some("pending") THEN "__end__" ELSE "execute_payment"

route_after_approval(state) ==
  IF state.status = Some("cancelled") THEN "__end__" ELSE "execute_payment"

\* ------------------------------------------------------------------------
\* security.py and the response of app.py
\* ------------------------------------------------------------------------
PII_KEYS == {"vendor_tax_id", "bank_account", "vendor_email", "buyer_email"}
REDACT_PLACEHOLDER == "[REDACTED]"

\* One level of redact_pii on a dictionary whose values are leaves.
redact_dict(d) ==
  [k \in DOMAIN d |-> IF k \in PII_KEYS THEN REDACT_PLACEHOLDER ELSE d[k]]

\* redact_pii on one item of the reconciled list: the item, its invoice and
\* its match are dictionaries.
redact_item(item) ==
  [k \in DOMAIN item |->
     IF k \in PII_KEYS THEN REDACT_PLACEHOLDER
     ELSE IF k = "invoice" THEN redact_dict(item[k])
     ELSE IF k = "match" /\ ~IsNone(item[k]) THEN Some(redact_dict(Val(item[k])))
     ELSE item[k]]

\* _state_to_response: the keys whose value is not None, with their values.
state_to_response(state) ==
  [k \in {key \in DOMAIN state : ~IsNone(state[key])} |-> Val(state[k])]

\* redact_pii on a response: the recursion over dictionaries and lists,
\* unrolled along the shape of the state.  The value under "__interrupt__"
\* is a list of Interrupt objects, neither dict nor list, and is returned as
\* it is.
redact_pii(resp) ==
  [k \in DOMAIN resp |->
     IF k \in PII_KEYS THEN REDACT_PLACEHOLDER
     ELSE IF k = "reconciled" THEN [i \in DOMAIN resp[k] |-> redact_item(resp[k][i])]
     ELSE IF k \in {"pending_payment", "hitl_prompt", "result"} THEN redact_dict(resp[k])
     ELSE resp[k]]

\* What graph.invoke returns: the channel values, and under "__interrupt__"
\* the pending interrupt when the run suspended.
invoke_result(state, interrupt) ==
  IF IsNone(interrupt) THEN state
  ELSE state @@ [__interrupt__ |-> Some(<<[value |-> Val(interrupt)]>>)]

OkResponse(state, interrupt) ==
  [kind |-> "ok", body |-> redact_pii(state_to_response(invoke_result(state, interrupt)))]

\* ------------------------------------------------------------------------
\* security.py on any payload
\* ------------------------------------------------------------------------
\* A payload of any shape: a dictionary (entries: its keys to payloads), a
\* list (elems: a sequence of payloads), or anything else, here a string.
Leaf(v) == [tag |-> "leaf", v |-> v]
Dict(entries) == [tag |-> "dict", entries |-> entries]
List(elems) == [tag |-> "list", elems |-> elems]

\* redact_pii that descends into dictionaries only.
RECURSIVE redact_pii_dicts_only(_)
redact_pii_dicts_only(obj) ==
  IF obj.tag = "dict"
  THEN Dict([k \in DOMAIN obj.entries |->
               IF k \in PII_KEYS THEN Leaf(REDACT_PLACEHOLDER)
               ELSE redact_pii_dicts_only(obj.entries[k])])
  ELSE obj

\* redact_pii, on a payload of any shape.
RECURSIVE redact_pii_obj(_)
redact_pii_obj(obj) ==
  IF obj.tag = "dict"
  THEN Dict([k \in DOMAIN obj.entries |->
               IF k \in PII_KEYS THEN Leaf(REDACT_PLACEHOLDER)
               ELSE redact_pii_obj(obj.entries[k])])
  ELSE IF obj.tag = "list"
  THEN List([i \in DOMAIN obj.elems |-> redact_pii_obj(obj.elems[i])])
  ELSE obj

\* Nesting depth of the payloads redact_pii is called on.
MaxDepth == 4

PayloadLeaves == {Leaf("acct-1"), Leaf("n/a")}

\* One more level around a pair of payloads: under a key that is not PII,
\* beside a PII key whose value differs between the two, under a PII key,
\* in a list, behind another element of a list, and under a key that is not
\* PII with the second payload replaced.
Wraps(p) ==
  { <<Dict("note" :> p[1]), Dict("note" :> p[2])>>,
    <<Dict(("items" :> p[1]) @@ ("bank_account" :> Leaf("acct-1"))),
      Dict(("items" :> p[2]) @@ ("bank_account" :> Leaf("acct-2")))>>,
    <<Dict("vendor_email" :> p[1]), Dict("vendor_email" :> Leaf("ap@vendor.example"))>>,
    <<List(<<p[1]>>), List(<<p[2]>>)>>,
    <<List(<<Leaf("n/a"), p[1]>>), List(<<Leaf("n/a"), p[2]>>)>>,
    <<Dict("note" :> p[1]), Dict("note" :> Leaf("changed"))>> }

\* The pairs of payloads nested up to depth d.
RECURSIVE PayloadPairs(_)
PayloadPairs(d) ==
  IF d = 0 THEN {<<l, l>> : l \in PayloadLeaves}
  ELSE LET prev == PayloadPairs(d - 1)
       IN  prev \cup UNION {Wraps(p) : p \in prev}

\* ------------------------------------------------------------------------
\* The service: configuration, checkpointed threads, calls in flight
\* ------------------------------------------------------------------------
\* The handlers are plain functions: the server runs each call on a worker
\* of its pool, takes no lock and makes no check of what else is in flight,
\* so calls on one thread_id overlap, as many as there are workers.
Workers == 1..MaxWorkers

VARIABLES
  threshold,     \* HITL_APPROVAL_THRESHOLD_USD, in cents
  max_retries,   \* MAX_TOOL_RETRIES
  created,       \* created[t]: the checkpointer holds state for thread t
  values,        \* values[t]: the channel values of the latest checkpoint of t
  next,          \* next[t]: the node the latest checkpoint of t schedules
  interrupts,    \* interrupts[t]: the latest checkpoint of t holds the
                 \* interrupt of check_approval, waiting for a decision
  modified,      \* modified[t]: the checkpointer wrote for t since the last
                 \* GET /state for t
  node,          \* node[w]: the node the graph.invoke on worker w runs next,
                 \* "payment_wait" inside the payment tool, "none" when the
                 \* worker serves no call
  local,         \* local[w]: the channel values the graph.invoke on w holds
  resume_value,  \* resume_value[w]: the decision of the resume call on w
  trace,         \* trace[w]: what the current or last call on w did
  response,      \* response[w]: the answer of the last /run or /resume on w
  answer,        \* answer[t]: the last answer of GET /state for t, with the
                 \* number of the API call it answers (at)
  ops,           \* number of API calls made
  timed_out,     \* number of matches that have timed out
  call_in,       \* the arguments of the function a function-level
                 \* specification calls
  call_out       \* what that function returned

svc_vars == <<threshold, max_retries, created, values, next, interrupts, modified,
              node, local, resume_value, trace, response, answer, ops, timed_out>>
vars == <<threshold, max_retries, created, values, next, interrupts, modified, node,
          local, resume_value, trace, response, answer, ops, timed_out, call_in, call_out>>

\* A graph.invoke is in flight on worker w.
active == [w \in Workers |-> node[w] # "none"]

\* trace[w] records, for the current or last call on w: the handler (op),
\* the thread_id, whether the thread had no state (fresh) or was suspended
\* (resumed) when the call started, the decision of a resume (approved), the
\* nodes run, what the ERP did in the reconcile node (step: whether every
\* attempt of the fetch timed out, and the list a successful attempt
\* returned), whether the call ended suspended, and the payments the payment
\* tool made.
NoTrace ==
  [op |-> "none", thread |-> "none", fresh |-> FALSE, resumed |-> FALSE,
   approved |-> NONE, nodes |-> <<>>, step |-> NONE, suspended |-> FALSE,
   pay_calls |-> 0]

StartTrace(op, t, fresh, resumed, approved) ==
  [op |-> op, thread |-> t, fresh |-> fresh, resumed |-> resumed,
   approved |-> approved, nodes |-> <<>>, step |-> NONE, suspended |-> FALSE,
   pay_calls |-> 0]

\* No call is being made on a function alone.
NoCall == [fn |-> "none"]

\* The service after start-up: no thread has a checkpoint, no worker serves
\* a call.
InitService ==
  /\ created = [t \in AllThreads |-> FALSE]
  /\ values = [t \in AllThreads |-> EmptyState]
  /\ next = [t \in AllThreads |-> "none"]
  /\ interrupts = [t \in AllThreads |-> FALSE]
  /\ modified = [t \in AllThreads |-> FALSE]
  /\ node = [w \in Workers |-> "none"]
  /\ local = [w \in Workers |-> EmptyState]
  /\ resume_value = [w \in Workers |-> NONE]
  /\ trace = [w \in Workers |-> NoTrace]
  /\ response = [w \in Workers |-> [kind |-> "none"]]
  /\ answer = [t \in AllThreads |-> [kind |-> "none", at |-> 0, again |-> FALSE]]
  /\ ops = 0
  /\ timed_out = 0

Init ==
  /\ threshold \in ThresholdChoices
  /\ max_retries \in MaxRetriesChoices
  /\ InitService
  /\ call_in = NoCall
  /\ call_out = NONE

\* The step writes to the checkpointer for thread t.
Written(t) == modified' = [modified EXCEPT ![t] = TRUE]

\* The engine saves the values a call holds as the latest checkpoint of the
\* thread, with the node it goes to next: the checkpoint of whichever call
\* wrote last is the one a later call or GET /state loads.  A new checkpoint
\* holds no interrupt.
Checkpoint(t, state, n) ==
  /\ values' = [values EXCEPT ![t] = state]
  /\ next' = [next EXCEPT ![t] = n]
  /\ interrupts' = [interrupts EXCEPT ![t] = FALSE]
  /\ Written(t)

\* A thread is suspended when its latest checkpoint holds the interrupt of
\* check_approval, whatever calls are in flight on it.
Suspended(t) == interrupts[t]

\* A worker is there to take a call; the first one that serves none takes it.
Idle == \E w \in Workers : ~active[w]
Taker == CHOOSE w \in Workers : ~active[w] /\ \A x \in Workers : ~active[x] => w <= x

\* The input of POST /run.
run_initial(vendor_id) ==
  [vendor_id |-> vendor_id, messages |-> Some(<<>>), retry_count |-> Some(0)]

\* POST /run whose checkpoint write is not keyed by the thread.
RunUnkeyed(t, vendor_id) ==
  /\ ops < MaxOps
  /\ Idle
  /\ ops' = ops + 1
  /\ created' = [u \in AllThreads |-> TRUE]
  /\ values' = [u \in AllThreads |-> ApplyUpdates(values[u], run_initial(vendor_id))]
  /\ next' = [next EXCEPT ![t] = "reconcile"]
  /\ interrupts' = [interrupts EXCEPT ![t] = FALSE]
  /\ modified' = [modified EXCEPT ![t] = TRUE]
  /\ node' = [node EXCEPT ![Taker] = "reconcile"]
  /\ local' = [local EXCEPT ![Taker] = ApplyUpdates(values[t], run_initial(vendor_id))]
  /\ resume_value' = [resume_value EXCEPT ![Taker] = NONE]
  /\ trace' = [trace EXCEPT ![Taker] = StartTrace("run", t, ~created[t], Suspended(t), NONE)]
  /\ UNCHANGED <<threshold, max_retries, timed_out, response, answer, call_in, call_out>>

\* POST /run up to the first node: graph.invoke(initial) loads the latest
\* checkpoint of the thread, writes the input over its values and schedules
\* reconcile, whatever that checkpoint had scheduled and whatever other call
\* is in flight on the thread.
Run(t, vendor_id) ==
  /\ ops < MaxOps
  /\ Idle
  /\ ops' = ops + 1
  /\ created' = [created EXCEPT ![t] = TRUE]
  /\ LET state == ApplyUpdates(values[t], run_initial(vendor_id))
     IN  /\ Checkpoint(t, state, "reconcile")
         /\ local' = [local EXCEPT ![Taker] = state]
  /\ node' = [node EXCEPT ![Taker] = "reconcile"]
  /\ resume_value' = [resume_value EXCEPT ![Taker] = NONE]
  /\ trace' = [trace EXCEPT ![Taker] = StartTrace("run", t, ~created[t], Suspended(t), NONE)]
  /\ UNCHANGED <<threshold, max_retries, timed_out, response, answer, call_in, call_out>>

\* The end of graph.invoke: the handler returns the redacted state.
Finish(w, state, tr) ==
  /\ node' = [node EXCEPT ![w] = "none"]
  /\ response' = [response EXCEPT ![w] = OkResponse(state, NONE)]
  /\ trace' = [trace EXCEPT ![w] = tr]

\* The engine goes on to node n.
Goto(w, n, tr) ==
  /\ node' = [node EXCEPT ![w] = n]
  /\ trace' = [trace EXCEPT ![w] = tr]
  /\ UNCHANGED response

\* The limit reconcile_node passes to reconcile_step.
ReconcileLimit == 5

\* Attempts of the fetch that the model draws an outcome for: the fetch
\* times out on the first failures attempts, 0..MaxAttempts, and succeeds
\* on every later one.
MaxAttempts == 3

\* The reconcile node and the routing after it.  Each match of a fetched
\* invoice is made or times out, as long as the behaviour has timeouts left.
Reconcile(w) ==
  /\ node[w] = "reconcile"
  /\ \E failures \in 0..MaxAttempts, match_timeouts \in [1..MaxReconciled -> BOOLEAN] :
       LET fetch_timeouts == [k \in 1..MaxAttempts |-> k <= failures]
           matched == Len(Take(mock_invoices(local[w].vendor_id, ReconcileLimit),
                               MaxReconciled))
           step == reconcile_step(local[w].vendor_id, ReconcileLimit, max_retries,
                                  fetch_timeouts, match_timeouts)
           state == ApplyUpdates(local[w], reconcile_node(local[w], step))
           attempts == IF max_retries > 0 THEN max_retries ELSE 0
           tr == [trace[w] EXCEPT
                    !.nodes = Append(@, "reconcile"),
                    !.step = Some([all_failed |-> attempts >= 1 /\ failures >= attempts,
                                   fetched |-> IF failures < attempts
                                               THEN Some(mock_invoices(local[w].vendor_id,
                                                                       ReconcileLimit))
                                               ELSE NONE])]
       IN  \* outcomes of calls that are never made are not drawn twice
           /\ failures <= attempts
           /\ timed_out + Cardinality({i \in 1..MaxReconciled : match_timeouts[i]})
                <= MaxMatchTimeouts
           /\ timed_out' = timed_out
                + Cardinality({i \in 1..MaxReconciled : match_timeouts[i]})
           /\ \A i \in 1..MaxReconciled :
                (i > matched \/ failures >= attempts) => ~match_timeouts[i]
           /\ local' = [local EXCEPT ![w] = state]
           /\ IF route_after_reconcile(state) = "__end__"
              THEN Checkpoint(trace[w].thread, state, "none") /\ Finish(w, state, tr)
              ELSE Checkpoint(trace[w].thread, state, "check_approval")
                   /\ Goto(w, "check_approval", tr)
  /\ UNCHANGED <<threshold, max_retries, created, resume_value, answer, ops,
                 call_in, call_out>>

\* The check_approval node and the routing after it.  When interrupt()
\* suspends, no checkpoint is made: the engine records the interrupt with the
\* checkpoint the call wrote after reconcile, which is the latest of the
\* thread unless another call has written since, and graph.invoke returns the
\* values the call holds with the prompt.
CheckApproval(w) ==
  /\ node[w] = "check_approval"
  /\ LET out == check_approval_node(local[w], threshold, resume_value[w])
         tr == [trace[w] EXCEPT !.nodes = Append(@, "check_approval")]
     IN  IF out.suspend
         THEN /\ node' = [node EXCEPT ![w] = "none"]
              /\ response' = [response EXCEPT ![w] = OkResponse(local[w], Some(out.prompt))]
              /\ trace' = [trace EXCEPT ![w] = [tr EXCEPT !.suspended = TRUE]]
              /\ Written(trace[w].thread)
              /\ interrupts' = [interrupts EXCEPT ![trace[w].thread] =
                                  @ \/ (next[trace[w].thread] = "check_approval"
                                        /\ values[trace[w].thread] = local[w])]
              /\ UNCHANGED <<values, next, local, resume_value>>
         ELSE LET state == ApplyUpdates(local[w], out.updates)
              IN  /\ local' = [local EXCEPT ![w] = state]
                  /\ resume_value' = [resume_value EXCEPT ![w] = NONE]
                  /\ IF route_after_approval(state) = "__end__"
                     THEN Checkpoint(trace[w].thread, state, "none")
                          /\ Finish(w, state, tr)
                     ELSE Checkpoint(trace[w].thread, state, "execute_payment")
                          /\ Goto(w, "execute_payment", tr)
  /\ UNCHANGED <<threshold, max_retries, timed_out, created, answer, ops, call_in, call_out>>

\* The execute_payment node up to the wait of the payment tool: the node has
\* read approval and the pending payment from the values the call holds and
\* has called execute_payment, which sleeps before it builds the result.  A
\* payment that is not approved returns at once, and the graph ends.
ExecutePaymentStart(w) ==
  /\ node[w] = "execute_payment"
  /\ LET tr == [trace[w] EXCEPT !.nodes = Append(@, "execute_payment")]
     IN  IF local[w].approval = Some(TRUE)
         THEN /\ Goto(w, "payment_wait", tr)
              /\ UNCHANGED <<values, next, interrupts, modified, local>>
         ELSE LET state == ApplyUpdates(local[w], execute_payment_node(local[w], 0))
              IN  /\ local' = [local EXCEPT ![w] = state]
                  /\ Checkpoint(trace[w].thread, state, "none")
                  /\ Finish(w, state, tr)
  /\ UNCHANGED <<threshold, max_retries, timed_out, created, resume_value, answer, ops,
                 call_in, call_out>>

\* The rest of the execute_payment node: the payment tool returns the paid
\* record, the engine applies the updates of the node and saves the
\* checkpoint, and the graph ends.
ExecutePaymentEnd(w) ==
  /\ node[w] = "payment_wait"
  /\ \E ref \in RefChoices :
       LET updates == execute_payment_node(local[w], ref)
           state == ApplyUpdates(local[w], updates)
           paid == Val(updates.result).status = "paid"
           tr == [trace[w] EXCEPT !.pay_calls = @ + (IF paid THEN 1 ELSE 0)]
       IN  /\ local' = [local EXCEPT ![w] = state]
           /\ Checkpoint(trace[w].thread, state, "none")
           /\ Finish(w, state, tr)
  /\ UNCHANGED <<threshold, max_retries, timed_out, created, resume_value, answer, ops,
                 call_in, call_out>>

\* POST /resume that starts the graph over instead of resuming it.
ResumeRestarts(t, approved) ==
  /\ ops < MaxOps
  /\ Idle
  /\ created[t]
  /\ next[t] # "none"
  /\ ops' = ops + 1
  /\ node' = [node EXCEPT ![Taker] = "reconcile"]
  /\ local' = [local EXCEPT ![Taker] = values[t]]
  /\ resume_value' = [resume_value EXCEPT ![Taker] = Some(approved)]
  /\ trace' = [trace EXCEPT ![Taker] =
                 StartTrace("resume", t, FALSE, Suspended(t), Some(approved))]
  /\ Written(t)
  /\ UNCHANGED <<threshold, max_retries, timed_out, created, values, next, interrupts, response,
                 answer, call_in, call_out>>

\* POST /resume on a thread whose latest checkpoint schedules a node:
\* graph.invoke(Command(resume=approved)) loads that checkpoint and goes on
\* from the node it schedules, with the decision for check_approval.  On a
\* suspended thread that node is the interrupted check_approval; the handler
\* does not look whether the thread is suspended or another call is in
\* flight on it.
Resume(t, approved) ==
  /\ ops < MaxOps
  /\ Idle
  /\ created[t]
  /\ next[t] # "none"
  /\ ops' = ops + 1
  /\ node' = [node EXCEPT ![Taker] = next[t]]
  /\ local' = [local EXCEPT ![Taker] = values[t]]
  /\ resume_value' = [resume_value EXCEPT ![Taker] = Some(approved)]
  /\ trace' = [trace EXCEPT ![Taker] =
                 StartTrace("resume", t, FALSE, Suspended(t), Some(approved))]
  /\ Written(t)
  /\ UNCHANGED <<threshold, max_retries, timed_out, created, values, next, interrupts, response,
                 answer, call_in, call_out>>

\* POST /resume on a thread whose latest checkpoint schedules nothing: no
\* node runs and the handler returns the checkpointed values.
ResumeIdle(t, approved) ==
  /\ ops < MaxOps
  /\ Idle
  /\ created[t]
  /\ next[t] = "none"
  /\ ops' = ops + 1
  /\ local' = [local EXCEPT ![Taker] = values[t]]
  /\ resume_value' = [resume_value EXCEPT ![Taker] = NONE]
  /\ trace' = [trace EXCEPT ![Taker] = StartTrace("resume", t, FALSE, FALSE, Some(approved))]
  /\ response' = [response EXCEPT ![Taker] = OkResponse(values[t], NONE)]
  /\ UNCHANGED <<threshold, max_retries, timed_out, created, values, next, interrupts, modified,
                 node, answer, call_in, call_out>>

\* What POST /resume answers for a thread the checkpointer has never seen.
\* The handler makes no check of its own and raises no HTTPException, and
\* graph.invoke has nothing to resume: either an exception of the engine or
\* of _state_to_response leaves the handler (a server error), or the handler
\* returns the empty values.
ResumeUnknownOutcomes == {[kind |-> "error"], OkResponse(EmptyState, NONE)}

\* POST /resume on a thread the checkpointer has never seen: no node runs
\* and no values are written.
ResumeUnknown(t, approved) ==
  /\ ops < MaxOps
  /\ Idle
  /\ ~created[t]
  /\ ops' = ops + 1
  /\ local' = [local EXCEPT ![Taker] = EmptyState]
  /\ resume_value' = [resume_value EXCEPT ![Taker] = NONE]
  /\ trace' = [trace EXCEPT ![Taker] = StartTrace("resume", t, TRUE, FALSE, Some(approved))]
  /\ \E outcome \in ResumeUnknownOutcomes :
       response' = [response EXCEPT ![Taker] = outcome]
  /\ UNCHANGED <<threshold, max_retries, timed_out, created, values, next, interrupts, modified,
                 node, answer, call_in, call_out>>

\* GET /state that answers with the values without looking whether there
\* are any.
state_response_unchecked(has_values, state) == OkResponse(state, NONE)

\* What GET /state answers: 404 when the snapshot has no values, else the
\* redacted values.
state_response(has_values, state) ==
  IF ~has_values THEN [kind |-> "not_found"] ELSE OkResponse(state, NONE)

\* The record of a GET /state answer for t: the number of the call, and
\* whether it follows an earlier GET /state for t with no write for t in
\* between.
ReadMark(t) ==
  [at |-> ops + 1, again |-> answer[t].kind # "none" /\ ~modified[t]]

\* GET /state that leaves a checkpoint behind for the thread it read.
GetStateCreates(t) ==
  /\ ops < MaxOps
  /\ ops' = ops + 1
  /\ answer' = [answer EXCEPT ![t] = state_response(created[t], values[t]) @@ ReadMark(t)]
  /\ modified' = [modified EXCEPT ![t] = FALSE]
  /\ created' = [created EXCEPT ![t] = TRUE]
  /\ UNCHANGED <<threshold, max_retries, timed_out, values, next, interrupts, node, local,
                 resume_value, trace, response, call_in, call_out>>

\* GET /state: one read of the latest checkpoint of the thread.
GetState(t) ==
  /\ ops < MaxOps
  /\ ops' = ops + 1
  /\ answer' = [answer EXCEPT ![t] = state_response(created[t], values[t]) @@ ReadMark(t)]
  /\ modified' = [modified EXCEPT ![t] = FALSE]
  /\ UNCHANGED <<threshold, max_retries, timed_out, created, values, next, interrupts, node,
                 local, resume_value, trace, response, call_in, call_out>>

Next ==
  \/ \E t \in Threads, v \in VendorInputs : Run(t, v)
  \/ \E w \in Workers : Reconcile(w)
  \/ \E w \in Workers : CheckApproval(w)
  \/ \E w \in Workers : ExecutePaymentStart(w)
  \/ \E w \in Workers : ExecutePaymentEnd(w)
  \/ \E t \in Threads, a \in BOOLEAN : Resume(t, a)
  \/ \E t \in Threads, a \in BOOLEAN : ResumeIdle(t, a)
  \/ \E t \in Threads, a \in BOOLEAN : ResumeUnknown(t, a)
  \/ \E t \in Threads : GetState(t)

Spec == Init /\ [][Next]_vars

\* ------------------------------------------------------------------------
\* Two threads served at once
\* ------------------------------------------------------------------------
\* The vendors the callers of the two threads ask for: one with a single
\* invoice, one with none.
ThreadVendors == {Some("V002"), Some("V999")}

\* A threshold at which that single invoice, of 2500.00, needs approval.
ThreadsThreshold == 250000

InitThreads ==
  /\ threshold = ThreadsThreshold
  /\ max_retries = DefaultMaxRetries
  /\ InitService
  /\ call_in = NoCall
  /\ call_out = NONE

NextThreads ==
  \/ \E t \in AllThreads, v \in ThreadVendors : Run(t, v)
  \/ \E w \in Workers : Reconcile(w)
  \/ \E w \in Workers : CheckApproval(w)
  \/ \E w \in Workers : ExecutePaymentStart(w)
  \/ \E w \in Workers : ExecutePaymentEnd(w)
  \/ \E t \in AllThreads, a \in BOOLEAN : Resume(t, a)
  \/ \E t \in AllThreads, a \in BOOLEAN : ResumeIdle(t, a)
  \/ \E t \in AllThreads, a \in BOOLEAN : ResumeUnknown(t, a)
  \/ \E t \in AllThreads : GetState(t)

SpecThreads == InitThreads /\ [][NextThreads]_vars

\* ------------------------------------------------------------------------
\* Functions called on their own
\* ------------------------------------------------------------------------
\* The service idle in its default configuration, and one call to make.
InitCall(inputs) ==
  /\ threshold = DefaultThreshold
  /\ max_retries = DefaultMaxRetries
  /\ InitService
  /\ call_in \in inputs
  /\ call_out = NONE

\* redact_pii is called on each payload of a pair.
RedactInputs ==
  {[fn |-> "redact_pii", a |-> p[1], b |-> p[2]] : p \in PayloadPairs(MaxDepth)}

RedactCall ==
  /\ call_in.fn = "redact_pii"
  /\ IsNone(call_out)
  /\ call_out' = Some([a |-> redact_pii_obj(call_in.a), b |-> redact_pii_obj(call_in.b)])
  /\ UNCHANGED <<svc_vars, call_in>>

InitRedact == InitCall(RedactInputs)

\* What one call of the operation run_with_retry_and_fallback wraps can do:
\* return a result or raise an error.
CallOutcomes == {Ok("r1"), Ok("r2"), Raised(ErpTimeout), Raised("ERP unavailable")}

\* run_with_retry_and_fallback is called with an operation whose k-th call
\* does outcomes[k], and with a budget from below zero to the number of
\* outcomes drawn.
RetryInputs ==
  {[fn |-> "run_with_retry_and_fallback", outcomes |-> o, max_retries |-> n,
    fallback_result |-> "fallback"] :
     o \in [1..MaxAttempts -> CallOutcomes], n \in (0 - 1)..MaxAttempts}

RetryCall ==
  /\ call_in.fn = "run_with_retry_and_fallback"
  /\ IsNone(call_out)
  /\ call_out' = Some(run_with_retry_and_fallback(call_in.outcomes, call_in.fallback_result,
                                                  call_in.max_retries))
  /\ UNCHANGED <<svc_vars, call_in>>

InitRetry == InitCall(RetryInputs)

\* The retry counts a thread can hold when the reconcile node starts.
RetryCounts == {NONE, Some(0), Some(2)}

\* The reconcile node is called for a vendor, with a retry budget, a retry
\* count already in the state, and an ERP that times out on the fetch
\* attempts and the matches marked.
ReconcileInputs ==
  {[fn |-> "reconcile_node", vendor_id |-> v, max_retries |-> n, retry_count |-> c,
    fetch_timeouts |-> f, match_timeouts |-> m] :
     v \in VendorInputs, n \in (0 - 1)..MaxAttempts, c \in RetryCounts,
     f \in [1..MaxAttempts -> BOOLEAN], m \in [1..MaxReconciled -> BOOLEAN]}

\* The node runs on a state that holds the vendor and the retry count; the
\* call records the result of reconcile_step, the updates of the node, the
\* state after them, where the graph goes next, and what POST /run answers
\* if the run ends there.
ReconcileCall ==
  /\ call_in.fn = "reconcile_node"
  /\ IsNone(call_out)
  /\ LET before == [EmptyState EXCEPT !.vendor_id = call_in.vendor_id,
                                      !.retry_count = call_in.retry_count]
         step == reconcile_step(call_in.vendor_id, ReconcileLimit, call_in.max_retries,
                                call_in.fetch_timeouts, call_in.match_timeouts)
         updates == reconcile_node(before, step)
         state == ApplyUpdates(before, updates)
     IN  call_out' = Some([step |-> step, updates |-> updates, state |-> state,
                           route |-> route_after_reconcile(state),
                           response |-> OkResponse(state, NONE)])
  /\ UNCHANGED <<svc_vars, call_in>>

InitStep == InitCall(ReconcileInputs)

NextStep == ReconcileCall

SpecStep == InitStep /\ [][NextStep]_vars

\* Invoice and purchase order identifiers a caller passes: the ones of the
\* mock data, unknown ones, the empty string, and one of the other kind.
InvoiceIds == {"INV-001", "INV-002", "INV-003", "INV-999", "", "PO-101"}
PoIds == {"PO-101", "PO-102", "PO-201", "PO-999", "", "INV-001"}

\* match_invoice_to_po is called on a pair of identifiers, with an ERP that
\* answers or times out.
MatchInputs ==
  {[fn |-> "match_invoice_to_po", invoice_id |-> i, po_id |-> p, timeout |-> t] :
     i \in InvoiceIds, p \in PoIds, t \in BOOLEAN}

MatchCall ==
  /\ call_in.fn = "match_invoice_to_po"
  /\ IsNone(call_out)
  /\ call_out' = Some(match_invoice_to_po(call_in.invoice_id, call_in.po_id, call_in.timeout))
  /\ UNCHANGED <<svc_vars, call_in>>

InitMatch == InitCall(MatchInputs)

NextMatch == MatchCall

SpecMatch == InitMatch /\ [][NextMatch]_vars

NextRetry == RetryCall

SpecRetry == InitRetry /\ [][NextRetry]_vars

NextRedact == RedactCall

SpecRedact == InitRedact /\ [][NextRedact]_vars

\* ------------------------------------------------------------------------
\* Properties
\* ------------------------------------------------------------------------
Terminal == {Some("paid"), Some("cancelled"), Some("failed")}

\* The fetch of the reconcile node of the current or last call on w
\* succeeded and returned at least one invoice.
FetchYielded(w) ==
  /\ ~IsNone(trace[w].step)
  /\ ~IsNone(Val(trace[w].step).fetched)
  /\ Val(Val(trace[w].step).fetched) # <<>>

\* Every attempt of that fetch timed out.
FetchFailed(w) == ~IsNone(trace[w].step) /\ Val(trace[w].step).all_failed

FirstFetched(w) == Val(Val(trace[w].step).fetched)[1]

PendingAmount(w) == Val(local[w].pending_payment).amount

\* The step runs node n of the call on w.
NodeRan(w, n) == trace'[w].nodes = Append(trace[w].nodes, n)

\* The step makes the payment tool pay for the call on w.
PaymentMade(w) == trace'[w].pay_calls = trace[w].pay_calls + 1

\* The suspend payload of the last /run or /resume answer on w.
HasInterrupt(w) ==
  /\ response[w].kind = "ok"
  /\ "__interrupt__" \in DOMAIN response[w].body

InterruptValue(w) == response[w].body["__interrupt__"][1].value

\* C1: after a POST /run whose fetch succeeded with at least one invoice,
\* on a fresh thread or on one that holds state, pending_payment.amount is
\* the amount of the first reconciled invoice and status is not failed.
C1_RunSetsPendingPayment ==
  \A w \in Workers :
    (trace[w].op = "run" /\ ~active[w] /\ FetchYielded(w)) =>
      /\ ~IsNone(local[w].pending_payment)
      /\ PendingAmount(w) = Val(local[w].reconciled)[1].invoice.amount
      /\ local[w].status # Some("failed")

\* C2: when the fetch fails on every one of its attempts (there is at least
\* one), the state after the reconcile node has an empty reconciled list,
\* used_fallback true and status failed.
C2_FailedFetchFails ==
  \A w \in Workers :
    FetchFailed(w) =>
      /\ local[w].reconciled = Some(<<>>)
      /\ local[w].used_fallback = Some(TRUE)
      /\ local[w].status = Some("failed")

C2_Witness ==
  \E w \in Workers :
    /\ FetchFailed(w)
    /\ ~active[w]
    /\ trace[w].nodes = <<"reconcile">>
    /\ local[w].status = Some("failed")
    /\ values[trace[w].thread].status = Some("failed")

\* C3: the payment tool pays, and status becomes paid, only when approval is
\* true in the state the call holds; a call that carries no decision of a
\* resume does not pass a pending payment at or above the threshold on to
\* execute_payment, and such a payment is paid only under an approval that
\* check_approval wrote from a decision that was true.
C3_PaymentNeedsApproval ==
  [][\A w \in Workers :
       /\ PaymentMade(w) =>
            /\ local[w].approval = Some(TRUE)
            /\ local'[w].status = Some("paid")
            /\ PendingAmount(w) >= threshold =>
                 /\ trace[w].op = "resume"
                 /\ ~IsNone(local[w].hitl_prompt)
       /\ (active[w] /\ local'[w].status = Some("paid") /\ local[w].status # Some("paid")) =>
            PaymentMade(w)
       /\ (NodeRan(w, "check_approval") /\ node'[w] = "execute_payment"
           /\ PendingAmount(w) >= threshold) =>
            (trace[w].op = "resume" /\ trace[w].approved = Some(TRUE))
    ]_vars

C3_Witness ==
  \E w \in Workers :
    /\ trace[w].op = "resume"
    /\ trace[w].approved = Some(TRUE)
    /\ trace[w].pay_calls = 1
    /\ PendingAmount(w) >= threshold
    /\ local[w].status = Some("paid")

\* C4: check_approval, in a call that carries no decision, suspends exactly
\* when pending_payment.amount >= threshold; below the threshold it never
\* suspends and sets approval to true and status to pending.
C4_SuspendIffAtThreshold ==
  [][\A w \in Workers :
       NodeRan(w, "check_approval") =>
         /\ trace[w].op = "run" => (trace'[w].suspended <=> PendingAmount(w) >= threshold)
         /\ PendingAmount(w) < threshold =>
              /\ ~trace'[w].suspended
              /\ active'[w]
              /\ local'[w].approval = Some(TRUE)
              /\ local'[w].status = Some("pending")
    ]_vars

\* An amount exactly equal to the threshold has suspended the run.
C4_Witness ==
  \E w \in Workers :
    /\ trace[w].op = "run"
    /\ trace[w].suspended
    /\ ~active[w]
    /\ PendingAmount(w) = threshold

\* C5: once the persisted status of a thread is paid, cancelled or failed,
\* no later operation on the thread changes it.
C5_TerminalStatusStays ==
  [][\A t \in Threads :
       values[t].status \in Terminal => values'[t].status = values[t].status]_vars

\* C6: in every persisted state, status failed implies that the most recent
\* reconciliation step errored and fell back: reconciled is empty,
\* used_fallback is true and last_error is set.
C6_FailedOnlyAfterFallback ==
  \A t \in Threads :
    values[t].status = Some("failed") =>
      /\ values[t].reconciled = Some(<<>>)
      /\ values[t].used_fallback = Some(TRUE)
      /\ ~IsNone(values[t].last_error)

\* C7: when POST /run produces a pending payment at or above the threshold,
\* its response carries a suspend payload with the amount and the invoice id
\* of the pending payment; a POST /resume with approved=true on the suspended
\* thread runs execute_payment and ends with status paid.
C7_SuspendThenApprovePays ==
  \A w \in Workers :
    /\ (trace[w].op = "run" /\ ~active[w] /\ FetchYielded(w)
        /\ PendingAmount(w) >= threshold) =>
         /\ HasInterrupt(w)
         /\ InterruptValue(w).amount_usd = PendingAmount(w)
         /\ InterruptValue(w).invoice_id = Val(local[w].pending_payment).invoice_id
    /\ (trace[w].op = "resume" /\ trace[w].resumed /\ trace[w].approved = Some(TRUE)
        /\ ~active[w]) =>
         /\ trace[w].nodes = <<"check_approval", "execute_payment">>
         /\ local[w].status = Some("paid")

\* C8: when a suspended thread is resumed with approved=false, the run ends
\* with approval false and status cancelled, execute_payment and the payment
\* tool are not invoked, and the final state has no payment outcome in result.
C8_RejectRecordsNoPayment ==
  \A w \in Workers :
    (trace[w].op = "resume" /\ trace[w].resumed /\ trace[w].approved = Some(FALSE)
     /\ ~active[w]) =>
      /\ local[w].approval = Some(FALSE)
      /\ local[w].status = Some("cancelled")
      /\ trace[w].nodes = <<"check_approval">>
      /\ trace[w].pay_calls = 0
      /\ IsNone(local[w].result)

\* C9: on a fresh thread, when the fetch succeeds and the first fetched
\* invoice is below the threshold, one POST /run runs reconcile,
\* check_approval and execute_payment without suspending and returns status
\* paid and no suspend payload.
C9_AutoApproveRunPays ==
  \A w \in Workers :
    (trace[w].op = "run" /\ trace[w].fresh /\ FetchYielded(w)
     /\ DecimalToFloat(FirstFetched(w).amount) < threshold) =>
      /\ ~trace[w].suspended
      /\ ~active[w] =>
           /\ trace[w].nodes = <<"reconcile", "check_approval", "execute_payment">>
           /\ local[w].status = Some("paid")
           /\ response[w].kind = "ok"
           /\ ~HasInterrupt(w)
           /\ response[w].body["status"] = "paid"

C9_Witness ==
  \E w \in Workers :
    /\ trace[w].op = "run"
    /\ trace[w].fresh
    /\ ~active[w]
    /\ FetchYielded(w)
    /\ DecimalToFloat(FirstFetched(w).amount) < threshold
    /\ local[w].status = Some("paid")

\* The step is a step of the call on w: the start of a call or a node.
CallStep(w) == trace'[w] # trace[w]

\* The values the call on w held before the step: those of the checkpoint
\* it loads when the step starts it.
Before(w) == IF active[w] THEN local[w] ELSE values[trace'[w].thread]

\* C10: a resume of a suspended thread continues from check_approval: from
\* the resume call to the end of the resumed run the reconcile node does not
\* run, the fetch and match tools are not invoked, and reconciled,
\* pending_payment, retry_count and last_error keep the values the
\* checkpoint had at suspension.
C10_ResumeContinues ==
  [][\A w \in Workers :
       (CallStep(w) /\ trace'[w].op = "resume" /\ trace'[w].resumed) =>
         /\ local'[w].reconciled = Before(w).reconciled
         /\ local'[w].pending_payment = Before(w).pending_payment
         /\ local'[w].retry_count = Before(w).retry_count
         /\ local'[w].last_error = Before(w).last_error
         /\ IsNone(trace'[w].step)
         /\ node'[w] # "reconcile"
         /\ trace'[w].nodes # <<>> => trace'[w].nodes[1] = "check_approval"
    ]_vars

C10_Witness ==
  \E w \in Workers :
    /\ trace[w].op = "resume"
    /\ trace[w].resumed
    /\ ~active[w]
    /\ trace[w].nodes = <<"check_approval", "execute_payment">>

\* The step is a GET /state for t: its answer carries the number of this call.
GetStateStep(t) == answer'[t].at = ops + 1

\* What a GET /state answer says: its kind, and its body when it has one.
Content(r) == IF r.kind = "ok" THEN <<r.kind, r.body>> ELSE <<r.kind>>

\* C11: POST /resume for a thread with no persisted state answers not-found,
\* runs no workflow node and creates no state for the thread.
C11_ResumeUnknownNotFound ==
  [][\A w \in Workers :
       (CallStep(w) /\ trace'[w].op = "resume" /\ trace'[w].fresh) =>
          /\ response'[w].kind = "not_found"
          /\ trace'[w].nodes = <<>>
          /\ ~active'[w]
          /\ created' = created]_vars

\* C12: GET /state answers not-found for a thread with no recorded state;
\* for a thread with recorded state it answers, never with not-found, the
\* recorded values that are not None, each with its value.
C12_GetStateNotFoundIffNoState ==
  [][\A t \in Threads :
       GetStateStep(t) =>
         IF ~created[t]
         THEN answer'[t].kind = "not_found"
         ELSE /\ answer'[t].kind = "ok"
              /\ DOMAIN answer'[t].body =
                   {k \in DOMAIN values[t] : ~IsNone(values[t][k])}
              /\ \A k \in DOMAIN answer'[t].body :
                   Some(answer'[t].body[k]) = values[t][k]]_vars

\* A GET /state has answered not-found for a thread without state, here one
\* that a POST /resume was tried on.
C12_Witness ==
  \E t \in Threads, w \in Workers :
    /\ answer[t].kind = "not_found"
    /\ ~created[t]
    /\ trace[w].op = "resume"
    /\ trace[w].thread = t

\* C13: a GET /state changes the persisted state of no thread, and a GET
\* /state that follows another for the same thread, with no write for that
\* thread in between, answers the same content.
C13_GetStateIsPureRead ==
  [][\A t \in Threads :
       GetStateStep(t) =>
         /\ UNCHANGED <<created, values, next, interrupts, node, local, resume_value>>
         /\ answer'[t].again => Content(answer'[t]) = Content(answer[t])]_vars

\* Two GET /state in a row have answered for a thread with recorded state.
C13_Witness ==
  \E t \in Threads :
    /\ answer[t].again
    /\ answer[t].kind = "ok"
    /\ "status" \in DOMAIN answer[t].body

\* Every PII key of the payload, at any depth, holds the placeholder.
RECURSIVE FullyRedacted(_)
FullyRedacted(obj) ==
  IF obj.tag = "dict"
  THEN \A k \in DOMAIN obj.entries :
         IF k \in PII_KEYS THEN obj.entries[k] = Leaf(REDACT_PLACEHOLDER)
         ELSE FullyRedacted(obj.entries[k])
  ELSE IF obj.tag = "list"
  THEN \A i \in DOMAIN obj.elems : FullyRedacted(obj.elems[i])
  ELSE TRUE

\* The two payloads have the same shape and the same content everywhere but
\* under PII keys.
RECURSIVE DifferOnlyUnderPII(_, _)
DifferOnlyUnderPII(a, b) ==
  /\ a.tag = b.tag
  /\ IF a.tag = "dict"
     THEN /\ DOMAIN a.entries = DOMAIN b.entries
          /\ \A k \in DOMAIN a.entries :
               k \in PII_KEYS \/ DifferOnlyUnderPII(a.entries[k], b.entries[k])
     ELSE IF a.tag = "list"
     THEN /\ Len(a.elems) = Len(b.elems)
          /\ \A i \in DOMAIN a.elems : DifferOnlyUnderPII(a.elems[i], b.elems[i])
     ELSE a = b

\* C14: the output of redact_pii on a payload of dictionaries and lists has
\* the placeholder under every PII key at every depth, and two payloads that
\* differ only in the values under PII keys have the same output.
C14_RedactionHidesPII ==
  (call_in.fn = "redact_pii" /\ ~IsNone(call_out)) =>
     /\ FullyRedacted(Val(call_out).a)
     /\ FullyRedacted(Val(call_out).b)
     /\ DifferOnlyUnderPII(call_in.a, call_in.b) => Val(call_out).a = Val(call_out).b

\* redact_pii has been called on two different payloads that differ only
\* under PII keys, with a PII key inside a list inside a dictionary.
C14_Witness ==
  /\ call_in.fn = "redact_pii"
  /\ ~IsNone(call_out)
  /\ call_in.a # call_in.b
  /\ DifferOnlyUnderPII(call_in.a, call_in.b)
  /\ call_in.a.tag = "dict"
  /\ "note" \in DOMAIN call_in.a.entries
  /\ call_in.a.entries["note"].tag = "list"
  /\ ~FullyRedacted(call_in.a.entries["note"])

\* The PII keys of a dictionary that hold something else than the placeholder.
PlainPII(d) == {k \in DOMAIN d \cap PII_KEYS : d[k] # REDACT_PLACEHOLDER}

\* No dictionary of a response body holds a PII key with a value of its own:
\* the body, the payment, prompt and result in it, the items of the
\* reconciled list with their invoice and match, and the prompt the suspend
\* indicator carries.
BodyRedacted(body) ==
  /\ PlainPII(body) = {}
  /\ \A k \in DOMAIN body \cap {"pending_payment", "hitl_prompt", "result"} :
       PlainPII(body[k]) = {}
  /\ "reconciled" \in DOMAIN body =>
       \A i \in DOMAIN body.reconciled :
         /\ PlainPII(body.reconciled[i]) = {}
         /\ PlainPII(body.reconciled[i].invoice) = {}
         /\ ~IsNone(body.reconciled[i].match) =>
              PlainPII(Val(body.reconciled[i].match)) = {}
  /\ "__interrupt__" \in DOMAIN body =>
       \A i \in DOMAIN body["__interrupt__"] :
         PlainPII(body["__interrupt__"][i].value) = {}

\* C15: no answer of POST /run, POST /resume or GET /state, whether the run
\* ended, suspended or failed, holds the original value of a PII-keyed
\* field: a body is redacted throughout, the prompt of the suspend indicator
\* included, and an answer that is an error has no body.
C15_ResponsesRedacted ==
  /\ \A w \in Workers :
       IF response[w].kind = "ok" THEN BodyRedacted(response[w].body)
       ELSE "body" \notin DOMAIN response[w]
  /\ \A t \in Threads :
       IF answer[t].kind = "ok" THEN BodyRedacted(answer[t].body)
       ELSE "body" \notin DOMAIN answer[t]

\* A run has answered with the suspend indicator and a GET /state has
\* answered with the state of the suspended thread.
C15_Witness ==
  \E t \in Threads, w \in Workers :
    /\ HasInterrupt(w)
    /\ trace[w].thread = t
    /\ answer[t].kind = "ok"
    /\ "reconciled" \in DOMAIN answer[t].body
    /\ answer[t].at = ops

\* run_with_retry_and_fallback has returned.
RetryReturned == call_in.fn = "run_with_retry_and_fallback" /\ ~IsNone(call_out)

\* The wrapped operation fails on its calls 1..k-1 and succeeds on call k.
FirstSuccessAt(k) ==
  /\ call_in.outcomes[k].ok
  /\ \A j \in 1..(k - 1) : ~call_in.outcomes[j].ok

\* C16: when the wrapped operation fails on attempts 1..k-1 and succeeds on
\* attempt k <= max_retries, run_with_retry_and_fallback returns the result
\* of attempt k with no error and used_fallback false, and has called the
\* operation exactly k times.
C16_FirstSuccessReturns ==
  RetryReturned =>
    \A k \in 1..MaxAttempts :
      (k <= call_in.max_retries /\ FirstSuccessAt(k)) =>
         /\ Val(call_out).result = call_in.outcomes[k].value
         /\ Val(call_out).error = NONE
         /\ ~Val(call_out).used_fallback
         /\ Val(call_out).calls = k

\* The wrapper has returned the result of the last attempt of its budget,
\* after every earlier attempt failed and with an outcome left unused.
C16_Witness ==
  /\ RetryReturned
  /\ call_in.max_retries = 2
  /\ FirstSuccessAt(2)
  /\ call_in.outcomes[2].value = "r2"
  /\ call_in.outcomes[3] = Ok("r1")
  /\ Val(call_out).calls = 2

\* C17: when every attempt of the wrapped operation fails, and there is at
\* least one, run_with_retry_and_fallback returns the fallback value, the
\* error of the last attempt and used_fallback true, and has called the
\* operation exactly max_retries times.
C17_ExhaustedReturnsFallback ==
  (/\ RetryReturned
   /\ call_in.max_retries >= 1
   /\ \A j \in 1..call_in.max_retries : ~call_in.outcomes[j].ok) =>
     /\ Val(call_out).result = call_in.fallback_result
     /\ Val(call_out).error = Some(call_in.outcomes[call_in.max_retries].error)
     /\ Val(call_out).used_fallback
     /\ Val(call_out).calls = call_in.max_retries

\* The wrapper has given up after three failed attempts whose last error
\* differs from the first.
C17_Witness ==
  /\ RetryReturned
  /\ call_in.max_retries = 3
  /\ \A j \in 1..3 : ~call_in.outcomes[j].ok
  /\ call_in.outcomes[1].error = ErpTimeout
  /\ call_in.outcomes[3].error = "ERP unavailable"
  /\ Val(call_out).error = Some("ERP unavailable")

\* The step leaves everything the service holds for thread u as it is: its
\* checkpoint, the answers given for it and the calls in flight on it.
ThreadUntouched(u) ==
  /\ created'[u] = created[u]
  /\ values'[u] = values[u]
  /\ next'[u] = next[u]
  /\ interrupts'[u] = interrupts[u]
  /\ modified'[u] = modified[u]
  /\ answer'[u] = answer[u]
  /\ \A w \in Workers :
       (active[w] /\ trace[w].thread = u) =>
          /\ node'[w] = node[w]
          /\ local'[w] = local[w]
          /\ resume_value'[w] = resume_value[w]
          /\ trace'[w] = trace[w]
          /\ response'[w] = response[w]

\* C18: threads are independent: every step of a POST /run, a POST /resume,
\* a GET /state or a node, in any interleaving of the calls on two threads,
\* is a step of one thread and leaves the persisted state and the answers of
\* the other thread unchanged.
C18_ThreadsIndependent ==
  [][\E t \in AllThreads : \A u \in AllThreads \ {t} : ThreadUntouched(u)]_vars

\* Calls on the two threads are in flight at once: a run about to ask for
\* approval on one, an approved resume about to pay on the other.
C18_Witness ==
  \E w, x \in Workers :
    /\ node[w] = "check_approval" /\ trace[w].thread = "t1"
    /\ node[x] = "payment_wait" /\ trace[x].thread = "t2"
    /\ trace[w].op = "run"
    /\ trace[x].op = "resume"

\* The pending payment made of the first item of a reconciled list.
FromFirstItem(reconciled) ==
  Some([invoice_id |-> reconciled[1].invoice.invoice_id,
        amount |-> reconciled[1].invoice.amount,
        vendor_id |-> reconciled[1].invoice.vendor_id])

\* The number of times node n ran in a sequence of nodes.
TimesRan(nodes, n) == Cardinality({i \in DOMAIN nodes : nodes[i] = n})

\* C19: within one run pending_payment changes only in the reconcile node,
\* which runs at most once; when the reconciled list is not empty the node
\* sets it to the invoice_id, amount and vendor_id of the first item, never
\* of a later one; check_approval and execute_payment leave it as it is.
C19_PendingFromFirstItemOnce ==
  [][\A w \in Workers :
       /\ (active[w] /\ local'[w].pending_payment # local[w].pending_payment) =>
            NodeRan(w, "reconcile")
       /\ (NodeRan(w, "reconcile") /\ Val(local'[w].reconciled) # <<>>) =>
            local'[w].pending_payment = FromFirstItem(Val(local'[w].reconciled))
       /\ (NodeRan(w, "check_approval") \/ NodeRan(w, "execute_payment")
           \/ PaymentMade(w)) =>
            local'[w].pending_payment = local[w].pending_payment
       /\ TimesRan(trace'[w].nodes, "reconcile") <= 1]_vars

\* A run over three reconciled invoices, the match of the first of which
\* timed out, was suspended, approved and paid, and the pending payment is
\* still the first of them.
C19_Witness ==
  \E w \in Workers :
    /\ trace[w].op = "resume"
    /\ trace[w].resumed
    /\ trace[w].nodes = <<"check_approval", "execute_payment">>
    /\ trace[w].pay_calls = 1
    /\ ~active[w]
    /\ Len(Val(local[w].reconciled)) = 3
    /\ IsNone(Val(local[w].reconciled)[1].match)
    /\ local[w].pending_payment = FromFirstItem(Val(local[w].reconciled))
    /\ Val(local[w].reconciled)[3].invoice.invoice_id # Val(local[w].pending_payment).invoice_id

\* The reconcile node has returned.
ReconcileReturned == call_in.fn = "reconcile_node" /\ ~IsNone(call_out)

\* The fetch attempts the retry budget allows.
FetchBudget == 1..call_in.max_retries

\* Some attempt of the fetch that was made timed out: an attempt within the
\* budget with no successful attempt before it.
SomeFetchFailed ==
  \E k \in FetchBudget :
    call_in.fetch_timeouts[k] /\ \A j \in 1..(k - 1) : call_in.fetch_timeouts[j]

\* Every attempt the budget allows timed out.
EveryFetchFailed == \A k \in FetchBudget : call_in.fetch_timeouts[k]

\* C20: when attempts of the fetch fail, reconcile_step and the reconcile
\* node still return, and POST /run answers with the state: after a failure
\* of every attempt the state carries the error text in last_error and
\* used_fallback true, and so does the answer; after a failure followed by a
\* success the state carries no error and used_fallback false.
C20_FetchFailureNotRaised ==
  (ReconcileReturned /\ SomeFetchFailed) =>
     LET out == Val(call_out)
     IN  /\ {"reconciled", "error", "used_fallback"} \subseteq DOMAIN out.step
         /\ out.response.kind = "ok"
         /\ IF EveryFetchFailed
            THEN /\ out.step.error = Some(ErpTimeout)
                 /\ out.step.used_fallback
                 /\ out.state.last_error = Some(ErpTimeout)
                 /\ out.state.used_fallback = Some(TRUE)
                 /\ out.route = "__end__"
                 /\ out.response.body.last_error = ErpTimeout
                 /\ out.response.body.used_fallback
            ELSE /\ out.step.error = NONE
                 /\ ~out.step.used_fallback
                 /\ out.state.last_error = NONE
                 /\ out.state.used_fallback = Some(FALSE)
                 /\ "last_error" \notin DOMAIN out.response.body

\* The node has returned after three failed attempts of a budget of three,
\* and the answer carries the error text.
C20_Witness ==
  /\ ReconcileReturned
  /\ call_in.max_retries = 3
  /\ call_in.fetch_timeouts[1] /\ call_in.fetch_timeouts[2]
  /\ call_in.fetch_timeouts[3]
  /\ Val(call_out).state.status = Some("failed")
  /\ Val(call_out).response.body.last_error = ErpTimeout

\* C21: whenever the execute_payment node pays, the invoice paid is the first
\* item of the reconciled list the reconcile node of the same run produced;
\* a run whose fetch returned no invoices pays nothing.
C21_PaysFirstReconciledOfRun ==
  [][\A w \in Workers :
       PaymentMade(w) =>
         /\ Val(local[w].reconciled) # <<>>
         /\ Val(local'[w].result).invoice_id =
              Val(local[w].reconciled)[1].invoice.invoice_id]_vars

\* The call on w ends with this step.
RunEnds(w) == ~active'[w] /\ next'[trace[w].thread] = "none"

\* C22: after the reconcile node, a status of failed ends the run with no
\* check_approval, no execute_payment and no payment, also when a pending
\* payment is present; otherwise a pending payment sends the run to
\* check_approval; otherwise the run ends with nothing paid.  check_approval
\* never runs on a failed status or without a pending payment.
C22_RouterFollowsTable ==
  [][\A w \in Workers :
       /\ NodeRan(w, "reconcile") =>
            IF local'[w].status = Some("failed")
            THEN RunEnds(w) /\ trace'[w].nodes = <<"reconcile">>
                 /\ trace'[w].pay_calls = 0
            ELSE IF ~IsNone(local'[w].pending_payment)
            THEN active'[w] /\ node'[w] = "check_approval"
            ELSE RunEnds(w) /\ trace'[w].nodes = <<"reconcile">>
                 /\ trace'[w].pay_calls = 0
       /\ (NodeRan(w, "check_approval") \/ NodeRan(w, "execute_payment")) =>
            /\ local[w].status # Some("failed")
            /\ ~IsNone(local[w].pending_payment)]_vars

\* A run has ended right after the reconcile node with status failed while
\* the thread held a pending payment.
C22_Witness ==
  \E w \in Workers :
    /\ trace[w].op = "run"
    /\ ~active[w]
    /\ trace[w].nodes = <<"reconcile">>
    /\ local[w].status = Some("failed")
    /\ ~IsNone(local[w].pending_payment)

\* The retry count the reconcile node starts from: 0 when the state has none.
IncomingRetryCount == IF IsNone(call_in.retry_count) THEN 0 ELSE Val(call_in.retry_count)

\* The reconciliation step returns an error: there is at least one attempt
\* and every attempt times out.
StepFails == call_in.max_retries >= 1 /\ EveryFetchFailed

\* C23: the reconcile node sets retry_count to the incoming retry_count plus
\* exactly 1 when the reconciliation step returned an error, whatever the
\* number of attempts that failed, and to the incoming value otherwise; it
\* sets last_error to the error text, or to none when there was no error.
C23_RetryCountPlusOne ==
  ReconcileReturned =>
    LET out == Val(call_out)
    IN  /\ ~IsNone(out.step.error) <=> StepFails
        /\ out.state.retry_count =
             Some(IncomingRetryCount + (IF StepFails THEN 1 ELSE 0))
        /\ out.state.last_error = (IF StepFails THEN Some(ErpTimeout) ELSE NONE)
        /\ out.state.last_error = out.step.error

\* The node has returned after three failed attempts with retry_count one
\* above the 2 it started from.
C23_Witness ==
  /\ ReconcileReturned
  /\ call_in.retry_count = Some(2)
  /\ Val(call_out).step.fetch_calls = 3
  /\ ~IsNone(Val(call_out).step.error)
  /\ Val(call_out).state.retry_count = Some(3)

\* An attempt of the fetch within the budget succeeds.
FetchSucceeds == \E k \in FetchBudget : ~call_in.fetch_timeouts[k]

\* What the successful fetch returns: the invoices of the vendor asked for.
Fetched == mock_invoices(call_in.vendor_id, ReconcileLimit)

\* C24: a match that fails is recorded on its own item only, with no match
\* and the error text; every other processed invoice has an item with its
\* own match result and no error; each invoice is matched exactly once; the
\* error of the step stays none and used_fallback false.
C24_MatchFailureStaysOnItem ==
  (ReconcileReturned /\ FetchSucceeds) =>
     LET step == Val(call_out).step
     IN  /\ step.error = NONE
         /\ ~step.used_fallback
         /\ step.match_calls = Len(step.reconciled)
         /\ Len(step.reconciled) = Len(Take(Fetched, MaxReconciled))
         /\ \A i \in DOMAIN step.reconciled :
              IF call_in.match_timeouts[i]
              THEN /\ step.reconciled[i].match = NONE
                   /\ "error" \in DOMAIN step.reconciled[i]
                   /\ step.reconciled[i].error = ErpTimeout
              ELSE /\ ~IsNone(step.reconciled[i].match)
                   /\ "error" \notin DOMAIN step.reconciled[i]
                   /\ Val(step.reconciled[i].match).invoice_id =
                        step.reconciled[i].invoice.invoice_id

\* The step has returned three items of which only the second failed to
\* match.
C24_Witness ==
  /\ ReconcileReturned
  /\ Len(Val(call_out).step.reconciled) = 3
  /\ ~IsNone(Val(call_out).step.reconciled[1].match)
  /\ Val(call_out).step.reconciled[2].match = NONE
  /\ Val(call_out).step.reconciled[2].error = ErpTimeout
  /\ ~IsNone(Val(call_out).step.reconciled[3].match)

\* The smaller of two numbers.
Min(a, b) == IF a < b THEN a ELSE b

\* C25: when the fetch succeeds with n invoices the reconciled list has
\* min(n, 3) items and item i holds the i-th fetched invoice; when every
\* attempt of the fetch failed the step returns an empty list and calls no
\* match.
C25_ItemsInFetchOrder ==
  ReconcileReturned =>
    LET step == Val(call_out).step
    IN  /\ FetchSucceeds =>
             /\ Len(step.reconciled) = Min(Len(Fetched), 3)
             /\ \A i \in DOMAIN step.reconciled :
                  step.reconciled[i].invoice = Fetched[i]
        /\ StepFails =>
             /\ step.reconciled = <<>>
             /\ step.match_calls = 0
             /\ step.fetch_calls = call_in.max_retries

\* The step has returned the three invoices of an unfiltered fetch that
\* succeeded on its second attempt, in the order of the fetch.
C25_Witness ==
  /\ ReconcileReturned
  /\ call_in.vendor_id = NONE
  /\ Val(call_out).step.fetch_calls = 2
  /\ Len(Val(call_out).step.reconciled) = 3
  /\ Val(call_out).step.reconciled[1].invoice.invoice_id = "INV-001"
  /\ Val(call_out).step.reconciled[2].invoice.invoice_id = "INV-002"
  /\ Val(call_out).step.reconciled[3].invoice.invoice_id = "INV-003"

\* match_invoice_to_po has returned a result.
MatchReturned ==
  call_in.fn = "match_invoice_to_po" /\ ~IsNone(call_out) /\ Val(call_out).ok

\* The elements of a sequence.
Range(s) == {s[k] : k \in DOMAIN s}

\* The mock invoices and purchase orders with the identifiers of the call.
InvoicesAsked == {i \in Range(MockInvoiceItems) : i.invoice_id = call_in.invoice_id}
PosAsked == {p \in Range(mock_pos) : p.po_id = call_in.po_id}

\* C26: the score is 0.0 when the invoice or the purchase order is not
\* found; when both are found it is 1.0 if the vendors agree and the amounts
\* are equal within the tolerance, and 0.5 in every other case.
C26_MatchScore ==
  /\ (call_in.fn = "match_invoice_to_po" /\ ~IsNone(call_out)) =>
        (Val(call_out).ok <=> ~call_in.timeout)
  /\ MatchReturned =>
      LET res == Val(call_out).value
      IN  IF InvoicesAsked = {} \/ PosAsked = {}
          THEN res.match_score = ScoreNone /\ ~res.amount_match
          ELSE \A i \in InvoicesAsked, p \in PosAsked :
                 LET same_vendor == i.vendor_id = p.vendor_id
                     same_amount == Abs(i.amount - p.total_amount) < AmountTolerance
                 IN  /\ res.amount_match = same_amount
                     /\ res.match_score =
                          (IF same_vendor /\ same_amount THEN ScoreFull ELSE ScoreHalf)

\* An invoice was matched to a purchase order of its vendor for another
\* amount, and scored 0.5.
C26_Witness ==
  /\ MatchReturned
  /\ call_in.invoice_id = "INV-001"
  /\ call_in.po_id = "PO-102"
  /\ Val(call_out).value.match_score = ScoreHalf
  /\ ~Val(call_out).value.amount_match

\* check_approval starts on a payment that needs approval, with no decision
\* to resume with: the node raises the suspension signal.
RaisesSuspension(w) ==
  /\ NodeRan(w, "check_approval")
  /\ ~IsNone(local[w].pending_payment)
  /\ PendingAmount(w) >= threshold
  /\ IsNone(resume_value[w])

\* C27: the suspension signal raised in check_approval is handled by no
\* part of the core: the call stops at check_approval with the prompt as the
\* interrupt value, the node ran once, and the state the call holds and the
\* checkpoint of the thread (retry_count, used_fallback, last_error, status
\* and every other field) are as before.
C27_SuspensionNotHandled ==
  [][\A w \in Workers :
       RaisesSuspension(w) =>
         /\ local'[w] = local[w]
         /\ values' = values /\ next' = next
         /\ ~active'[w]
         /\ trace'[w].suspended
         /\ TimesRan(trace'[w].nodes, "check_approval") = 1
         /\ trace'[w].pay_calls = 0
         /\ HasInterrupt(w)'
         /\ InterruptValue(w)' = ApprovalPrompt(local[w], threshold)]_vars

\* A run is suspended at check_approval after a fetch that succeeded: the
\* interrupt is in the answer and the state holds no error, no failure and
\* the retry count the reconcile node wrote.
C27_Witness ==
  \E w \in Workers :
    /\ trace[w].suspended
    /\ Suspended(trace[w].thread)
    /\ HasInterrupt(w)
    /\ trace[w].nodes = <<"reconcile", "check_approval">>
    /\ ~Val(trace[w].step).all_failed
    /\ local[w].last_error = NONE
    /\ local[w].retry_count = Some(0)
    /\ local[w].status # Some("failed")

\* check_approval has just suspended the call on w.
JustSuspended(w) == NodeRan(w, "check_approval") /\ ~active'[w] /\ trace'[w].suspended

\* C28: no thread ever has status 'awaiting_approval'; while a thread is
\* suspended in check_approval its status is the one it had before the node
\* started, absent on a fresh thread, and approval and hitl_prompt are not
\* written.
C28_SuspendedWritesNothing ==
  [][/\ \A t \in Threads : values'[t].status # Some("awaiting_approval")
     /\ \A w \in Workers :
          /\ local'[w].status # Some("awaiting_approval")
          /\ JustSuspended(w) =>
               /\ local'[w].status = local[w].status
               /\ values'[trace[w].thread].status = values[trace[w].thread].status
               /\ trace[w].fresh => local'[w].status = NONE
               /\ local'[w].approval = NONE
               /\ local'[w].hitl_prompt = NONE
     /\ \A t \in Threads :
          (Suspended(t) /\ Suspended(t)') => values'[t] = values[t]]_vars

\* C29: for every retry budget, zero and negative ones included, the result
\* of the fetch under run_with_retry_and_fallback has used_fallback true
\* exactly when its error is not none, and the state after the reconcile
\* node has used_fallback true exactly when its status is 'failed'.
C29_FallbackIffError ==
  ReconcileReturned =>
    LET out == Val(call_out)
    IN  /\ out.step.used_fallback <=> ~IsNone(out.step.error)
        /\ out.state.used_fallback = Some(TRUE) <=> out.state.status = Some("failed")

====
